---- MODULE Spec2Model ----
(***************************************************************************)
(* Model of scripts/extract_images.py: the command-line adapter main() and *)
(* the extraction routine extract_images_from_pdf(), with the PyMuPDF      *)
(* calls it makes (fitz.open, len(doc), doc[page_num], page.get_images,    *)
(* doc.extract_image, page.get_image_rects, doc.close).  The content of a  *)
(* page is fixed when the routine loads the page.  Every library call      *)
(* either returns or raises an exception carrying a message.               *)
(***************************************************************************)
EXTENDS Integers, Sequences, FiniteSets, TLC

(* ---- bounds of the model ---- *)
MaxPages == 2
MaxImages == 3
MaxArgv == 3

(* ---- the document behind fitz ---- *)
\* Cross-reference numbers of the image resources of the file.
Xrefs == {1, 2}

\* The rectangles at which the pages draw images.
Rects ==
    {[x0 |-> 10, y0 |-> 20, x1 |-> 110, y1 |-> 70],
     [x0 |-> 30, y0 |-> 40, x1 |-> 50, y1 |-> 45]}

\* One image usage of a page: the resource it shows and the rectangles at
\* which the page's content stream draws it (none when the resource is
\* referenced but never drawn).
Usages == [xref : Xrefs, at : {<<>>} \cup {<<r>> : r \in Rects}]

\* The messages a failing library call carries (str(e) of the exception).
Msgs(call) ==
    IF call = "open" THEN {"", "no such file"}
    ELSE IF call = "get_images" THEN {"bad page"}
    ELSE IF call = "extract_image" THEN {"bad xref"}
    ELSE {"bad rect"}

RECURSIVE SeqsUpTo(_, _)
SeqsUpTo(S, n) ==
    IF n = 0 THEN {<<>>}
    ELSE LET shorter == SeqsUpTo(S, n - 1)
         IN  shorter \cup {Append(s, x) : s \in {t \in shorter : Len(t) = n - 1}, x \in S}

\* The number of image usages on the pages d.
RECURSIVE TotalUsages(_)
TotalUsages(d) == IF d = <<>> THEN 0 ELSE Len(Head(d)) + TotalUsages(Tail(d))

\* The pages a document can have after the pages d: a document holds at most
\* MaxImages image usages in all.
NextPages(d) == SeqsUpTo(Usages, MaxImages - TotalUsages(d))

\* doc.extract_image(xref): the decoded bytes and the extension of a resource.
ImageStore(xref) ==
    IF xref = 1 THEN [image |-> <<255, 216, 255, 224>>, ext |-> "jpeg"]
    ELSE [image |-> <<137, 80, 78, 71, 13>>, ext |-> "png"]

\* page.get_images(full=True): one tuple per usage, its first item the xref.
get_images(d, p) == [i \in 1..Len(d[p + 1]) |-> <<d[p + 1][i].xref>>]

\* page.get_image_rects(xref): every rectangle at which the page draws xref.
RECURSIVE RectsFrom(_, _, _, _)
RectsFrom(d, p, xref, i) ==
    IF i > Len(d[p + 1]) THEN <<>>
    ELSE (IF d[p + 1][i].xref = xref THEN d[p + 1][i].at ELSE <<>>)
         \o RectsFrom(d, p, xref, i + 1)

get_image_rects(d, p, xref) == RectsFrom(d, p, xref, 1)

(* ---- pure helpers of the routine ---- *)
B64Chars ==
    << "A","B","C","D","E","F","G","H","I","J","K","L","M","N","O","P",
       "Q","R","S","T","U","V","W","X","Y","Z","a","b","c","d","e","f",
       "g","h","i","j","k","l","m","n","o","p","q","r","s","t","u","v",
       "w","x","y","z","0","1","2","3","4","5","6","7","8","9","+","/" >>

\* base64.b64encode(image_bytes).decode('utf-8'): standard alphabet, padded.
RECURSIVE b64encode(_)
b64encode(bs) ==
    IF Len(bs) = 0 THEN ""
    ELSE IF Len(bs) = 1 THEN
        LET n == bs[1] * 65536
        IN  B64Chars[(n \div 262144) + 1] \o B64Chars[((n \div 4096) % 64) + 1] \o "=="
    ELSE IF Len(bs) = 2 THEN
        LET n == bs[1] * 65536 + bs[2] * 256
        IN  B64Chars[(n \div 262144) + 1] \o B64Chars[((n \div 4096) % 64) + 1]
            \o B64Chars[((n \div 64) % 64) + 1] \o "="
    ELSE
        LET n == bs[1] * 65536 + bs[2] * 256 + bs[3]
        IN  B64Chars[(n \div 262144) + 1] \o B64Chars[((n \div 4096) % 64) + 1]
            \o B64Chars[((n \div 64) % 64) + 1] \o B64Chars[(n % 64) + 1]
            \o b64encode(SubSeq(bs, 4, Len(bs)))

ZeroBBox == [x |-> 0, y |-> 0, width |-> 0, height |-> 0]

RectBBox(rect) ==
    [x |-> rect.x0, y |-> rect.y0, width |-> rect.x1 - rect.x0, height |-> rect.y1 - rect.y0]

\* Variant of BBoxOf that takes the last rectangle instead of the first.
BBoxOfLast(rs) == IF rs # <<>> THEN RectBBox(rs[Len(rs)]) ELSE ZeroBBox

\* The bbox of a record from the rectangles looked up for its resource.
BBoxOf(rs) == IF rs # <<>> THEN RectBBox(rs[1]) ELSE ZeroBBox

\* Variant of ImageRecord that reports the internal, 0-based page index.
ImageRecordZeroBased(pn, ii, bi, rs) ==
    [pageNumber |-> pn,
     imageIndex |-> ii,
     format |-> bi.ext,
     base64 |-> b64encode(bi.image),
     bbox |-> BBoxOf(rs)]

ImageRecord(pn, ii, bi, rs) ==
    [pageNumber |-> pn + 1,
     imageIndex |-> ii,
     format |-> bi.ext,
     base64 |-> b64encode(bi.image),
     bbox |-> BBoxOf(rs)]

\* Variant of WrapMessage that drops the original message.
WrapMessageDropped(m) == "Failed to extract images"

WrapMessage(m) == "Failed to extract images: " \o m

UsageLine == [kind |-> "text", text |-> "Usage: python extract_images.py <pdf_path>"]

SuccessEnvelope(imgs) ==
    [kind |-> "json", obj |-> [success |-> TRUE, totalImages |-> Len(imgs), images |-> imgs]]

FailureEnvelope(m) ==
    [kind |-> "json", obj |-> [success |-> FALSE, error |-> m]]

NoImage == [image |-> <<>>, ext |-> ""]

(* ---- state ---- *)
VARIABLES
    argv_len,          \* len(sys.argv)
    pc,                \* position of the single thread of control
    num_pages,         \* len(doc) of the opened document
    doc,               \* the pages of the document loaded so far (doc[page_num])
    doc_state,         \* "none", "open" or "closed": the document handle
    page_num,          \* loop variable of the page loop
    image_list,        \* get_images' result for the current page
    image_index,       \* loop variable of the image loop
    base_image,        \* extract_image's result for the current usage
    extracted_images,  \* the records accumulated by the routine
    returned,          \* TRUE once the routine has returned its list
    images,            \* main's local: the returned list
    e,                 \* str(e) of the exception in flight
    orig,              \* message of the exception the library raised
    raised,            \* number of exceptions raised by library calls
    caught,            \* number of times the routine's handler ran
    stdout,            \* lines written to standard output
    stderr,            \* lines written to standard error
    exit_code          \* -1 while running, else the process exit code

vars == <<argv_len, pc, num_pages, doc, doc_state, page_num, image_list, image_index,
          base_image, extracted_images, returned, images, e, orig, raised,
          caught, stdout, stderr, exit_code>>

locals == <<page_num, image_list, image_index, base_image>>
io == <<stdout, stderr, exit_code>>
exc == <<e, orig, raised, caught>>

Init ==
    /\ argv_len \in 1..MaxArgv
    /\ pc = "main"
    /\ num_pages = 0
    /\ doc = <<>>
    /\ doc_state = "none"
    /\ page_num = 0
    /\ image_list = <<>>
    /\ image_index = 0
    /\ base_image = NoImage
    /\ extracted_images = <<>>
    /\ returned = FALSE
    /\ images = <<>>
    /\ e = ""
    /\ orig = ""
    /\ raised = 0
    /\ caught = 0
    /\ stdout = <<>>
    /\ stderr = <<>>
    /\ exit_code = -1

\* A library call raises: control passes to the routine's except clause.
Raise(m) ==
    /\ pc' = "except"
    /\ e' = m
    /\ orig' = m
    /\ raised' = raised + 1
    /\ UNCHANGED caught

(* ---- main(), argument check ---- *)
UsageError ==
    /\ pc = "main"
    /\ argv_len # 2
    /\ stderr' = Append(stderr, UsageLine)
    /\ exit_code' = 1
    /\ pc' = "exit"
    /\ UNCHANGED <<argv_len, num_pages, doc, doc_state, locals, extracted_images, returned,
                   images, exc, stdout>>

\* Variant of CallExtract whose argument check lets extra arguments through.
CallExtractAtLeastOne ==
    /\ pc = "main"
    /\ argv_len >= 2
    /\ extracted_images' = <<>>
    /\ pc' = "open"
    /\ UNCHANGED <<argv_len, num_pages, doc, doc_state, locals, returned, images, exc, io>>

CallExtract ==
    /\ pc = "main"
    /\ argv_len = 2
    /\ extracted_images' = <<>>
    /\ pc' = "open"
    /\ UNCHANGED <<argv_len, num_pages, doc, doc_state, locals, returned, images, exc, io>>

(* ---- extract_images_from_pdf() ---- *)
OpenOk ==
    /\ pc = "open"
    /\ \E n \in 0..MaxPages : num_pages' = n
    /\ doc_state' = "open"
    /\ page_num' = 0
    /\ pc' = "page_loop"
    /\ UNCHANGED <<argv_len, doc, image_list, image_index, base_image, extracted_images,
                   returned, images, exc, io>>

OpenFail ==
    /\ pc = "open"
    /\ \E m \in Msgs("open") : Raise(m)
    /\ UNCHANGED <<argv_len, num_pages, doc, doc_state, locals, extracted_images, returned,
                   images, io>>

GetImagesOk ==
    /\ pc = "page_loop"
    /\ page_num < num_pages
    /\ \E pg \in NextPages(doc) :
          /\ doc' = Append(doc, pg)
          /\ image_list' = get_images(doc', page_num)
    /\ image_index' = 0
    /\ pc' = "image_loop"
    /\ UNCHANGED <<argv_len, num_pages, doc_state, page_num, base_image, extracted_images,
                   returned, images, exc, io>>

GetImagesFail ==
    /\ pc = "page_loop"
    /\ page_num < num_pages
    /\ \E m \in Msgs("get_images") : Raise(m)
    /\ UNCHANGED <<argv_len, num_pages, doc, doc_state, locals, extracted_images, returned,
                   images, io>>

ExtractImageOk ==
    /\ pc = "image_loop"
    /\ image_index < Len(image_list)
    /\ base_image' = ImageStore(image_list[image_index + 1][1])
    /\ pc' = "rects"
    /\ UNCHANGED <<argv_len, num_pages, doc, doc_state, page_num, image_list, image_index,
                   extracted_images, returned, images, exc, io>>

ExtractImageFail ==
    /\ pc = "image_loop"
    /\ image_index < Len(image_list)
    /\ \E m \in Msgs("extract_image") : Raise(m)
    /\ UNCHANGED <<argv_len, num_pages, doc, doc_state, locals, extracted_images, returned,
                   images, io>>

\* Variant of AppendRecord that drops a usage for which no rectangle is found.
AppendRecordSkipUnplaced ==
    /\ pc = "rects"
    /\ LET xref == image_list[image_index + 1][1]
           rects == get_image_rects(doc, page_num, xref)
       IN  extracted_images' =
               IF rects = <<>> THEN extracted_images
               ELSE Append(extracted_images,
                           ImageRecord(page_num, image_index, base_image, rects))
    /\ image_index' = image_index + 1
    /\ pc' = "image_loop"
    /\ UNCHANGED <<argv_len, num_pages, doc, doc_state, page_num, image_list, base_image,
                   returned, images, exc, io>>

\* Variant of AppendRecord that inserts the record at the front of the list.
AppendRecordPrepend ==
    /\ pc = "rects"
    /\ LET xref == image_list[image_index + 1][1]
           rects == get_image_rects(doc, page_num, xref)
       IN  extracted_images' =
               <<ImageRecord(page_num, image_index, base_image, rects)>> \o extracted_images
    /\ image_index' = image_index + 1
    /\ pc' = "image_loop"
    /\ UNCHANGED <<argv_len, num_pages, doc, doc_state, page_num, image_list, base_image,
                   returned, images, exc, io>>

AppendRecord ==
    /\ pc = "rects"
    /\ LET xref == image_list[image_index + 1][1]
           rects == get_image_rects(doc, page_num, xref)
       IN  extracted_images' =
               Append(extracted_images, ImageRecord(page_num, image_index, base_image, rects))
    /\ image_index' = image_index + 1
    /\ pc' = "image_loop"
    /\ UNCHANGED <<argv_len, num_pages, doc, doc_state, page_num, image_list, base_image,
                   returned, images, exc, io>>

GetImageRectsFail ==
    /\ pc = "rects"
    /\ \E m \in Msgs("get_image_rects") : Raise(m)
    /\ UNCHANGED <<argv_len, num_pages, doc, doc_state, locals, extracted_images, returned,
                   images, io>>

NextPage ==
    /\ pc = "image_loop"
    /\ image_index >= Len(image_list)
    /\ page_num' = page_num + 1
    /\ pc' = "page_loop"
    /\ UNCHANGED <<argv_len, num_pages, doc, doc_state, image_list, image_index, base_image,
                   extracted_images, returned, images, exc, io>>

CloseAndReturn ==
    /\ pc = "page_loop"
    /\ page_num >= num_pages
    /\ doc_state' = "closed"
    /\ returned' = TRUE
    /\ images' = extracted_images
    /\ pc' = "main_print"
    /\ UNCHANGED <<argv_len, num_pages, doc, locals, extracted_images, exc, io>>

\* Variant of Rewrap that swallows the exception and returns what was accumulated.
RewrapReturnsPartial ==
    /\ pc = "except"
    /\ caught' = caught + 1
    /\ returned' = TRUE
    /\ images' = extracted_images
    /\ pc' = "main_print"
    /\ UNCHANGED <<argv_len, num_pages, doc, doc_state, locals, extracted_images, e, orig,
                   raised, io>>

Rewrap ==
    /\ pc = "except"
    /\ caught' = caught + 1
    /\ e' = WrapMessage(e)
    /\ pc' = "main_except"
    /\ UNCHANGED <<argv_len, num_pages, doc, doc_state, locals, extracted_images, returned,
                   images, orig, raised, io>>

(* ---- main(), outcome ---- *)
\* Variant of PrintSuccess in which main's handler also catches sys.exit(0).
PrintSuccessExitCaught ==
    /\ pc = "main_print"
    /\ stdout' = Append(stdout, SuccessEnvelope(images))
    /\ stderr' = Append(stderr, FailureEnvelope("0"))
    /\ exit_code' = 1
    /\ pc' = "exit"
    /\ UNCHANGED <<argv_len, num_pages, doc, doc_state, locals, extracted_images, returned,
                   images, exc>>

PrintSuccess ==
    /\ pc = "main_print"
    /\ stdout' = Append(stdout, SuccessEnvelope(images))
    /\ exit_code' = 0
    /\ pc' = "exit"
    /\ UNCHANGED <<argv_len, num_pages, doc, doc_state, locals, extracted_images, returned,
                   images, exc, stderr>>

PrintFailure ==
    /\ pc = "main_except"
    /\ stderr' = Append(stderr, FailureEnvelope(e))
    /\ exit_code' = 1
    /\ pc' = "exit"
    /\ UNCHANGED <<argv_len, num_pages, doc, doc_state, locals, extracted_images, returned,
                   images, exc, stdout>>

Next ==
    \/ UsageError
    \/ CallExtract
    \/ OpenOk
    \/ OpenFail
    \/ GetImagesOk
    \/ GetImagesFail
    \/ ExtractImageOk
    \/ ExtractImageFail
    \/ AppendRecord
    \/ GetImageRectsFail
    \/ NextPage
    \/ CloseAndReturn
    \/ Rewrap
    \/ PrintSuccess
    \/ PrintFailure

Spec == Init /\ [][Next]_vars

(* ---- properties ---- *)
\* The imageIndex values of the records of page number p, in list order.
PageIndices(imgs, p) ==
    LET OnPage(r) == r.pageNumber = p
        s == SelectSeq(imgs, OnPage)
    IN  [i \in 1..Len(s) |-> s[i].imageIndex]

\* The usage of the document a record was made for.
UsageOf(r) == doc[r.pageNumber][r.imageIndex + 1]

LeftRoutine == pc \in {"main_print", "main_except", "exit"}

\* C1: whenever fitz.open succeeded, the document is closed by the time the
\* routine has returned or raised, on the success path and on every failure
\* path alike.
C1_ClosedOnEveryExit ==
    (LeftRoutine /\ doc_state # "none") => doc_state = "closed"

\* C2: extraction is all-or-nothing: once any library step has failed, the
\* routine returns no records, nothing is ever written to standard output,
\* and the run ends with exactly the failure envelope on standard error and
\* exit code 1.
C2_AllOrNothing ==
    raised > 0 =>
        /\ ~returned
        /\ images = <<>>
        /\ stdout = <<>>
        /\ pc = "exit" =>
              /\ Len(stderr) = 1
              /\ stderr[1].kind = "json"
              /\ stderr[1].obj.success = FALSE
              /\ DOMAIN stderr[1].obj = {"success", "error"}
              /\ exit_code = 1

C2_Witness ==
    /\ pc = "exit"
    /\ raised > 0
    /\ Len(extracted_images) >= 2
    /\ stdout = <<>>

\* C3: on every successful run totalImages equals the length of the images
\* array and both equal the number of image usages enumerated over all pages.
C3_TotalImages ==
    (pc = "exit" /\ exit_code = 0) =>
        /\ Len(stdout) = 1
        /\ Len(doc) = num_pages
        /\ stdout[1].obj.totalImages = Len(stdout[1].obj.images)
        /\ Len(stdout[1].obj.images) = TotalUsages(doc)

C3_Witness ==
    /\ pc = "exit"
    /\ exit_code = 0
    /\ num_pages = 2
    /\ TotalUsages(doc) = 3
    /\ \E i \in 1..Len(doc[1]) : doc[1][i].at = <<>>
    /\ stdout[1].obj.totalImages = 3

\* C4: every record has pageNumber in 1..P and a non-negative imageIndex, and
\* on success the imageIndex values of each page's records are exactly
\* 0..k-1 in order, k being the number of usages of that page.
C4_PageAndIndex ==
    /\ \A i \in 1..Len(extracted_images) :
          /\ extracted_images[i].pageNumber \in 1..num_pages
          /\ extracted_images[i].imageIndex >= 0
    /\ (pc = "exit" /\ exit_code = 0) =>
          \A p \in 1..num_pages :
              PageIndices(stdout[1].obj.images, p) = [i \in 1..Len(doc[p]) |-> i - 1]

C4_Witness ==
    /\ pc = "exit"
    /\ exit_code = 0
    /\ num_pages = 2
    /\ Len(doc[1]) = 2
    /\ Len(doc[2]) = 1
    /\ PageIndices(stdout[1].obj.images, 1) = <<0, 1>>
    /\ PageIndices(stdout[1].obj.images, 2) = <<0>>

\* Records in page order first, enumeration order within the page second.
Ordered(imgs) ==
    \A i, j \in 1..Len(imgs) :
        i < j =>
            \/ imgs[i].pageNumber < imgs[j].pageNumber
            \/ /\ imgs[i].pageNumber = imgs[j].pageNumber
               /\ imgs[i].imageIndex < imgs[j].imageIndex

AppendOnly ==
    \/ extracted_images' = extracted_images
    \/ /\ Len(extracted_images') = Len(extracted_images) + 1
       /\ SubSeq(extracted_images', 1, Len(extracted_images)) = extracted_images

\* C5: the records are always in page order first and enumeration order
\* second, the emitted array included, and every step either leaves the list
\* alone or appends one record to it.
C5_OrderedAppendOnly ==
    /\ [](Ordered(extracted_images) /\ Ordered(images))
    /\ [](\A k \in 1..Len(stdout) : stdout[k].obj.images = extracted_images)
    /\ [][AppendOnly]_vars

C5_Witness ==
    /\ pc = "exit"
    /\ exit_code = 0
    /\ Len(stdout[1].obj.images) = 3
    /\ stdout[1].obj.images[1].pageNumber = 1
    /\ stdout[1].obj.images[2].pageNumber = 2
    /\ stdout[1].obj.images[3].imageIndex = 1

IsSuccessLine(l) == l.kind = "json" /\ l.obj.success = TRUE
IsFailureLine(l) == l.kind = "json" /\ l.obj.success = FALSE

C6_Exclusive ==
    /\ pc # "exit" => (exit_code = -1 /\ stdout = <<>> /\ stderr = <<>>)
    /\ pc = "exit" =>
          /\ exit_code \in {0, 1}
          /\ exit_code = 0 <=>
                (Len(stdout) = 1 /\ IsSuccessLine(stdout[1]) /\ stderr = <<>>)
          /\ exit_code = 1 <=> (stdout = <<>> /\ Len(stderr) = 1)
          /\ (argv_len # 2 \/ raised > 0) => exit_code = 1
          /\ ~ /\ \E k \in 1..Len(stdout) : IsSuccessLine(stdout[k])
               /\ \E k \in 1..Len(stderr) : IsFailureLine(stderr[k])

\* An upper bound on the steps a run still has to take.
Variant ==
    LET work == 4 * (num_pages - page_num) + 3 * (MaxImages - Len(extracted_images))
    IN  CASE pc = "exit" -> 0
          [] pc = "main_print" -> 1
          [] pc = "main_except" -> 1
          [] pc = "except" -> 2
          [] pc = "rects" -> 3 + work + 1
          [] pc = "image_loop" -> 3 + work + 2
          [] pc = "page_loop" -> 3 + work + 3
          [] pc = "open" -> 3 + 4 * MaxPages + 3 * MaxImages + 4
          [] pc = "main" -> 3 + 4 * MaxPages + 3 * MaxImages + 5

\* C6: every run ends in exactly one of success and failure: exit code 0
\* exactly when one success envelope is on standard output and standard error
\* is empty, exit code 1 on every failure with standard output empty, never
\* both a success and a failure envelope; and a run does end, since no state
\* short of the exit is stuck and every step brings the exit nearer.
C6_ExactlyOneOutcome ==
    /\ [](C6_Exclusive /\ Variant >= 0 /\ (pc # "exit" => ENABLED Next))
    /\ [][Variant' < Variant]_vars

C6_Witness ==
    /\ pc = "exit"
    /\ exit_code = 0
    /\ Len(stdout) = 1
    /\ IsSuccessLine(stdout[1])
    /\ stdout[1].obj.totalImages = 2
    /\ stderr = <<>>

\* C7: with an argument count other than one the document is never opened,
\* nothing but the plain-text usage line is written to standard error, no
\* JSON goes to either stream and the exit code is 1.
C7_UsageError ==
    argv_len # 2 =>
        /\ doc_state = "none"
        /\ pc \in {"main", "exit"}
        /\ stdout = <<>>
        /\ raised = 0
        /\ pc = "exit" =>
              /\ Len(stderr) = 1
              /\ stderr[1].kind = "text"
              /\ stderr[1].text = "Usage: python extract_images.py <pdf_path>"
              /\ exit_code = 1

C7_Witness ==
    /\ argv_len = 3
    /\ pc = "exit"
    /\ exit_code = 1
    /\ Len(stderr) = 1

\* C8: two usages of one resource on one page, drawn at two distinct
\* rectangles, give two records with the same format and base64, each with
\* the bbox of the rectangle of its own usage.
C8_PerUsageBBox ==
    (pc = "exit" /\ exit_code = 0) =>
        \A i, j \in 1..Len(images) :
            LET a == images[i]
                b == images[j]
            IN  ( /\ i # j
                  /\ a.pageNumber = b.pageNumber
                  /\ UsageOf(a).xref = UsageOf(b).xref
                  /\ UsageOf(a).at # <<>>
                  /\ UsageOf(b).at # <<>>
                  /\ UsageOf(a).at # UsageOf(b).at )
                => /\ a.format = b.format
                   /\ a.base64 = b.base64
                   /\ a.bbox = RectBBox(UsageOf(a).at[1])
                   /\ b.bbox = RectBBox(UsageOf(b).at[1])

\* C9: an exception of a library call is caught once by the routine and
\* re-raised with the original text after the fixed prefix; the error field
\* of the failure envelope is that text, and no library step runs again.
C9_WrappedOnce ==
    /\ raised <= 1
    /\ caught <= raised
    /\ raised > 0 => pc \in {"except", "main_except", "exit"}
    /\ (raised > 0 /\ pc = "except") => (caught = 0 /\ e = orig)
    /\ (raised > 0 /\ pc \in {"main_except", "exit"}) =>
          /\ caught = 1
          /\ e = "Failed to extract images: " \o orig
    /\ (raised > 0 /\ pc = "exit") =>
          /\ Len(stderr) = 1
          /\ stderr[1].obj.error = "Failed to extract images: " \o orig

C9_Witness ==
    /\ pc = "exit"
    /\ raised = 1
    /\ orig = "bad xref"
    /\ Len(extracted_images) = 1
    /\ stderr[1].obj.error = "Failed to extract images: bad xref"

\* C10: the bbox of every record is that of the first rectangle looked up for
\* the record's resource on the record's page, or the all-zero box when the
\* lookup finds none; a usage without a rectangle still yields its record.
C10_BBox ==
    /\ \A i \in 1..Len(extracted_images) :
          LET r == extracted_images[i]
              rs == get_image_rects(doc, r.pageNumber - 1, UsageOf(r).xref)
          IN  IF Len(rs) >= 1
              THEN r.bbox = [x |-> rs[1].x0, y |-> rs[1].y0,
                             width |-> rs[1].x1 - rs[1].x0,
                             height |-> rs[1].y1 - rs[1].y0]
              ELSE r.bbox = [x |-> 0, y |-> 0, width |-> 0, height |-> 0]
    /\ pc = "image_loop" =>
          Len(PageIndices(extracted_images, page_num + 1)) = image_index

C10_Witness ==
    /\ pc = "exit"
    /\ exit_code = 0
    /\ Len(images) = 3
    /\ images[1].bbox = [x |-> 0, y |-> 0, width |-> 0, height |-> 0]
    /\ images[2].bbox = [x |-> 30, y |-> 40, width |-> 20, height |-> 5]
    /\ Len(get_image_rects(doc, images[2].pageNumber - 1, UsageOf(images[2]).xref)) = 2
    /\ UsageOf(images[1]).at = <<>>
    /\ UsageOf(images[2]).at = <<[x0 |-> 30, y0 |-> 40, x1 |-> 50, y1 |-> 45]>>
    /\ UsageOf(images[3]).at = <<[x0 |-> 10, y0 |-> 20, x1 |-> 110, y1 |-> 70]>>
    /\ images[3].bbox = images[2].bbox

====
